---- MODULE Spec2Model ----
(***************************************************************************)
(* A model of dscribe's SOAP descriptor front end                           *)
(* (src/dscribe/descriptors/soap.py): construction and its validation, the  *)
(* layout of the flat feature vector (get_number_of_features, get_location) *)
(* the validation and method selection of derivatives(), center             *)
(* preparation, and the batch entry points create() / derivatives() on a    *)
(* list of structures.                                                      *)
(*                                                                          *)
(* Floating point values of the source that are always a multiple of 1/2    *)
(* (results of "/ 2" on integers) are kept as a count of halves; int() is   *)
(* TruncHalves.  rcut and sigma are drawn from integers: the source only    *)
(* compares them with 0 and 1.                                              *)
(***************************************************************************)
EXTENDS Integers, Sequences, FiniteSets, TLC

VARIABLES
    pc,            \* "new" (before __init__), "ready" (object built), "failed" (__init__ raised)
    args,          \* the arguments given to __init__
    obj,           \* the attributes of the SOAP object
    init_err,      \* the error __init__ raised, or "none"
    basis_builds,  \* how many times a radial basis was computed (get_basis_gto / get_basis_poly)
    last,          \* the last call made on the object and its outcome
    run            \* the batch call in progress: its jobs and how far each one is

vars == <<pc, args, obj, init_err, basis_builds, last, run>>

----------------------------------------------------------------------------
(* Bounds of the model *)

MaxSpecies == 3     \* configured species per descriptor
MaxNmax == 3        \* radial basis size
MaxLmax == 2        \* angular degrees explored besides the limits 19, 20
MaxAtoms == 2       \* atoms per structure
MaxPositions == 2   \* entries of a positions list
MaxSamples == 2     \* structures per batch
MaxBuilds == 3      \* radial basis computations followed per object
MaxJobs == 2        \* n_jobs of a batch call
MaxChunkSamples == 8   \* batch sizes for the chunking alone
MaxChunkJobs == 8      \* worker counts for the chunking alone

(* Program constants *)

GtoLmaxLimit == 19
PolyLmaxLimit == 20
GtoTableDegrees == 10

(* Atomic numbers used as inputs: the first MaxSpecies can be configured,  *)
(* the next one only occurs in structures and queries.                     *)
Elements == <<1, 8, 6, 7, 9, 15>>

Universe == {Elements[k] : k \in 1..MaxSpecies}

Outsider == Elements[MaxSpecies + 1]

----------------------------------------------------------------------------
(* Helpers *)

Min(a, b) == IF a <= b THEN a ELSE b

Range(s) == {s[k] : k \in DOMAIN s}

InjectiveSeqs(S, n) ==
    UNION {{s \in [1..k -> S] : \A a, b \in 1..k : a # b => s[a] # s[b]} : k \in 1..n}

(* int() of a value given as a count of halves: truncation towards zero *)
TruncHalves(h) == IF h >= 0 THEN h \div 2 ELSE -((-h) \div 2)

(* np.sort of the distinct atomic numbers *)
SortedSeq(S) ==
    CHOOSE s \in [1..Cardinality(S) -> S] :
        \A a, b \in 1..Cardinality(S) : a < b => s[a] < s[b]

----------------------------------------------------------------------------
(* SOAP.__init__ *)

SupportedRbf == {"gto", "polynomial"}

SupportedAverage == {"off", "inner", "outer"}

ValidationError_ge(a) ==
    IF a.sigma <= 0 THEN "sigma"
    ELSE IF a.lmax < 0 THEN "lmax_negative"
    ELSE IF a.rbf \notin SupportedRbf THEN "rbf"
    ELSE IF a.nmax < 1 THEN "nmax"
    ELSE IF a.average \notin SupportedAverage THEN "average"
    ELSE IF a.rbf = "gto" /\ a.rcut <= 1 THEN "gto_rcut"
    ELSE IF a.rbf = "gto" /\ a.lmax >= GtoLmaxLimit THEN "gto_lmax"
    ELSE IF a.rbf = "polynomial" /\ a.lmax > PolyLmaxLimit THEN "poly_lmax"
    ELSE "none"

(* The checks of __init__ in source order; "none" when all pass. *)
ValidationError(a) ==
    IF a.sigma <= 0 THEN "sigma"
    ELSE IF a.lmax < 0 THEN "lmax_negative"
    ELSE IF a.rbf \notin SupportedRbf THEN "rbf"
    ELSE IF a.nmax < 1 THEN "nmax"
    ELSE IF a.average \notin SupportedAverage THEN "average"
    ELSE IF a.rbf = "gto" /\ a.rcut <= 1 THEN "gto_rcut"
    ELSE IF a.rbf = "gto" /\ a.lmax > GtoLmaxLimit THEN "gto_lmax"
    ELSE IF a.rbf = "polynomial" /\ a.lmax > PolyLmaxLimit THEN "poly_lmax"
    ELSE "none"

(* __init__ reaches the call of get_basis_gto *)
InitBuildsBasis(a) == a.rbf = "gto" /\ ValidationError(a) = "none"

(* real: whether sqrtm(inv(S)) came out real in get_basis_gto *)
InitError(a, real) ==
    IF ValidationError(a) # "none" THEN ValidationError(a)
    ELSE IF a.rbf = "gto" /\ ~real THEN "basis_not_real"
    ELSE "none"

NoObject ==
    [species |-> <<>>, atomic_numbers |-> <<>>, atomic_number_set |-> {},
     atomic_number_to_index |-> <<>>, index_to_atomic_number |-> <<>>,
     n_elements |-> 0, sigma |-> 0, rcut |-> 0, nmax |-> 0, lmax |-> 0,
     rbf |-> "", average |-> "", crossover |-> FALSE, periodic |-> FALSE,
     sparse |-> FALSE, alphas_degrees |-> {}]

(* Descriptor._set_species: the distinct atomic numbers, sorted *)
SetSpecies(species) == SortedSeq(Range(species))

(* the species setter: the maps between atomic numbers and internal indices *)
AtomicNumberToIndex(numbers) ==
    [z \in Range(numbers) |-> (CHOOSE k \in DOMAIN numbers : numbers[k] = z) - 1]

IndexToAtomicNumber(numbers) ==
    [i \in 0..(Len(numbers) - 1) |-> numbers[i + 1]]

(* the degrees l that get_basis_gto fills in alphas_full / betas_full *)
GetBasisGtoDegrees == 0..(GtoTableDegrees - 1)

NewObject(a) ==
    LET numbers == SetSpecies(a.species) IN
    [species |-> a.species,
     atomic_numbers |-> numbers,
     atomic_number_set |-> Range(a.species),
     atomic_number_to_index |-> AtomicNumberToIndex(numbers),
     index_to_atomic_number |-> IndexToAtomicNumber(numbers),
     n_elements |-> Len(numbers),
     sigma |-> a.sigma, rcut |-> a.rcut, nmax |-> a.nmax, lmax |-> a.lmax,
     rbf |-> a.rbf, average |-> a.average, crossover |-> a.crossover,
     periodic |-> a.periodic, sparse |-> a.sparse,
     alphas_degrees |-> IF a.rbf = "gto" THEN GetBasisGtoDegrees ELSE {}]

(* last: op, the method called; arg, its arguments; err, the error it raised *)
(* or "none"; start, stop, value: what it returned; method: the derivative  *)
(* method handed to derivatives_single; backend: the extension routine that *)
(* ran last; computed: for how many structures an extension routine ran;    *)
(* builds: how many radial bases the call computed; sizes: the output_sizes  *)
(* of a batch create; shapes: the shapes a batch derivatives hands on;       *)
(* centers, indices: what prepare_centers returned; rows: the rows the      *)
(* samples of each job of a batch returned so far; predicted, allocated:    *)
(* for the sample a batch derivatives computed last, its shapes by          *)
(* get_shapes and the shapes of the arrays derivatives_single made.         *)
(* run: op, "create" or "derivatives" while a batch is being computed;      *)
(* jobs, the chunks handed to the workers; done, how many samples of its    *)
(* chunk each job has finished; method and real as given to each sample.    *)
NoRun == [op |-> "none", jobs |-> <<>>, done |-> <<>>, method |-> "none", real |-> TRUE]

NoCall ==
    [op |-> "none", err |-> "none", arg |-> <<>>, start |-> 0, stop |-> 0,
     value |-> 0, method |-> "none", backend |-> "none", computed |-> 0,
     builds |-> 0, sizes |-> <<>>, shapes |-> <<>>, centers |-> <<>>,
     indices |-> <<>>, rows |-> <<>>, predicted |-> <<>>, allocated |-> <<>>]

Construct ==
    /\ pc = "new"
    /\ \E real \in BOOLEAN :
        LET e == InitError(args, real) IN
        /\ init_err' = e
        /\ pc' = IF e = "none" THEN "ready" ELSE "failed"
        /\ obj' = IF e = "none" THEN NewObject(args) ELSE NoObject
    /\ basis_builds' = IF InitBuildsBasis(args) THEN 1 ELSE 0
    /\ UNCHANGED <<args, last, run>>

----------------------------------------------------------------------------
(* SOAP.get_number_of_features *)

GetNumberOfFeatures_floordiv(o) ==
    LET n_elem == Len(o.atomic_numbers) IN
    IF o.crossover
    THEN LET n_elem_radial == n_elem * o.nmax IN
         n_elem_radial * ((n_elem_radial + 1) \div 2) * (o.lmax + 1)
    ELSE n_elem * o.nmax * ((o.nmax + 1) \div 2) * (o.lmax + 1)

GetNumberOfFeatures_square(o) ==
    LET n_elem == Len(o.atomic_numbers) IN
    IF o.crossover
    THEN LET n_elem_radial == n_elem * o.nmax IN
         TruncHalves(n_elem_radial * n_elem_radial * (o.lmax + 1))
    ELSE TruncHalves(n_elem * o.nmax * o.nmax * (o.lmax + 1))

GetNumberOfFeatures(o) ==
    LET n_elem == Len(o.atomic_numbers) IN
    IF o.crossover
    THEN LET n_elem_radial == n_elem * o.nmax IN
         TruncHalves(n_elem_radial * (n_elem_radial + 1) * (o.lmax + 1))
    ELSE TruncHalves(n_elem * o.nmax * (o.nmax + 1) * (o.lmax + 1))

CallGetNumberOfFeatures ==
    /\ pc = "ready"
    /\ last' = [NoCall EXCEPT !.op = "get_number_of_features",
                              !.value = GetNumberOfFeatures(obj)]
    /\ UNCHANGED <<pc, args, obj, init_err, basis_builds, run>>

----------------------------------------------------------------------------
(* SOAP.get_location; species: a tuple of atomic numbers (chemical symbols  *)
(* are turned into atomic numbers first and then treated alike)             *)

GetLocation_nosymm(o, species) ==
    IF Len(species) # 2 THEN [err |-> "not_a_pair", start |-> 0, stop |-> 0]
    ELSE IF \E k \in 1..2 : species[k] \notin o.atomic_number_set
    THEN [err |-> "unknown_species", start |-> 0, stop |-> 0]
    ELSE
    LET n0 == o.atomic_number_to_index[species[1]]
        n1 == o.atomic_number_to_index[species[2]]
        n_elem == o.n_elements
        \* if numbers[0] > numbers[1]: numbers = reversed(numbers)
        i == IF n0 > n1 THEN n1 ELSE n0
        j == IF n0 > n1 THEN n0 ELSE n1
        \* n_elem_feat_symm, in halves
        symm_h == o.nmax * (o.nmax + 1) * (o.lmax + 1)
    IN
    IF o.crossover
    THEN LET unsymm == o.nmax * o.nmax * (o.lmax + 1)
             n_elem_feat_h == IF i = j THEN symm_h ELSE 2 * unsymm
             m_symm == i
             \* m_unsymm, in halves
             m_unsymm_h == 2 * j + 2 * i * n_elem - i * (i + 1) - 2 * m_symm
             start == TruncHalves(m_symm * symm_h + m_unsymm_h * unsymm)
         IN  [err |-> "none", start |-> start,
              stop |-> TruncHalves(2 * start + n_elem_feat_h)]
    ELSE IF i # j
         THEN [err |-> "no_crossover", start |-> 0, stop |-> 0]
         ELSE LET start == TruncHalves(i * symm_h)
              IN  [err |-> "none", start |-> start,
                   stop |-> TruncHalves(2 * start + symm_h)]

GetLocation_any_pair(o, species) ==
    IF Len(species) # 2 THEN [err |-> "not_a_pair", start |-> 0, stop |-> 0]
    ELSE IF \E k \in 1..2 : species[k] \notin o.atomic_number_set
    THEN [err |-> "unknown_species", start |-> 0, stop |-> 0]
    ELSE
    LET n0 == o.atomic_number_to_index[species[1]]
        n1 == o.atomic_number_to_index[species[2]]
        n_elem == o.n_elements
        \* if numbers[0] > numbers[1]: numbers = reversed(numbers)
        i == IF n0 > n1 THEN n1 ELSE n0
        j == IF n0 > n1 THEN n0 ELSE n1
        \* n_elem_feat_symm, in halves
        symm_h == o.nmax * (o.nmax + 1) * (o.lmax + 1)
    IN
    IF o.crossover
    THEN LET unsymm == o.nmax * o.nmax * (o.lmax + 1)
             n_elem_feat_h == IF i = j THEN symm_h ELSE 2 * unsymm
             m_symm == i + (IF j > i THEN 1 ELSE 0)
             \* m_unsymm, in halves
             m_unsymm_h == 2 * j + 2 * i * n_elem - i * (i + 1) - 2 * m_symm
             start == TruncHalves(m_symm * symm_h + m_unsymm_h * unsymm)
         IN  [err |-> "none", start |-> start,
              stop |-> TruncHalves(2 * start + n_elem_feat_h)]
    ELSE LET start == TruncHalves(i * symm_h)
         IN  [err |-> "none", start |-> start,
              stop |-> TruncHalves(2 * start + symm_h)]

GetLocation_as_given(o, species) ==
    IF Len(species) # 2 THEN [err |-> "not_a_pair", start |-> 0, stop |-> 0]
    ELSE IF \E k \in 1..2 : species[k] \notin o.atomic_number_set
    THEN [err |-> "unknown_species", start |-> 0, stop |-> 0]
    ELSE
    LET n0 == o.atomic_number_to_index[species[1]]
        n1 == o.atomic_number_to_index[species[2]]
        n_elem == o.n_elements
        i == n0
        j == n1
        \* n_elem_feat_symm, in halves
        symm_h == o.nmax * (o.nmax + 1) * (o.lmax + 1)
    IN
    IF o.crossover
    THEN LET unsymm == o.nmax * o.nmax * (o.lmax + 1)
             n_elem_feat_h == IF i = j THEN symm_h ELSE 2 * unsymm
             m_symm == i + (IF j > i THEN 1 ELSE 0)
             \* m_unsymm, in halves
             m_unsymm_h == 2 * j + 2 * i * n_elem - i * (i + 1) - 2 * m_symm
             start == TruncHalves(m_symm * symm_h + m_unsymm_h * unsymm)
         IN  [err |-> "none", start |-> start,
              stop |-> TruncHalves(2 * start + n_elem_feat_h)]
    ELSE IF i # j
         THEN [err |-> "no_crossover", start |-> 0, stop |-> 0]
         ELSE LET start == TruncHalves(i * symm_h)
              IN  [err |-> "none", start |-> start,
                   stop |-> TruncHalves(2 * start + symm_h)]

GetLocation(o, species) ==
    IF Len(species) # 2 THEN [err |-> "not_a_pair", start |-> 0, stop |-> 0]
    ELSE IF \E k \in 1..2 : species[k] \notin o.atomic_number_set
    THEN [err |-> "unknown_species", start |-> 0, stop |-> 0]
    ELSE
    LET n0 == o.atomic_number_to_index[species[1]]
        n1 == o.atomic_number_to_index[species[2]]
        n_elem == o.n_elements
        \* if numbers[0] > numbers[1]: numbers = reversed(numbers)
        i == IF n0 > n1 THEN n1 ELSE n0
        j == IF n0 > n1 THEN n0 ELSE n1
        \* n_elem_feat_symm, in halves
        symm_h == o.nmax * (o.nmax + 1) * (o.lmax + 1)
    IN
    IF o.crossover
    THEN LET unsymm == o.nmax * o.nmax * (o.lmax + 1)
             n_elem_feat_h == IF i = j THEN symm_h ELSE 2 * unsymm
             m_symm == i + (IF j > i THEN 1 ELSE 0)
             \* m_unsymm, in halves
             m_unsymm_h == 2 * j + 2 * i * n_elem - i * (i + 1) - 2 * m_symm
             start == TruncHalves(m_symm * symm_h + m_unsymm_h * unsymm)
         IN  [err |-> "none", start |-> start,
              stop |-> TruncHalves(2 * start + n_elem_feat_h)]
    ELSE IF i # j
         THEN [err |-> "no_crossover", start |-> 0, stop |-> 0]
         ELSE LET start == TruncHalves(i * symm_h)
              IN  [err |-> "none", start |-> start,
                   stop |-> TruncHalves(2 * start + symm_h)]

(* the tuples given to get_location: pairs, and tuples of another length *)
LocationQueries ==
    LET Z == Universe \cup {Outsider} IN
    {<<a>> : a \in Z} \cup {<<a, b>> : a, b \in Z} \cup {<<a, a, a>> : a \in Z}

CallGetLocation ==
    /\ pc = "ready"
    /\ \E species \in LocationQueries :
        LET r == GetLocation(obj, species) IN
        last' = [NoCall EXCEPT !.op = "get_location", !.arg = species,
                               !.err = r.err, !.start = r.start, !.stop = r.stop]
    /\ UNCHANGED <<pc, args, obj, init_err, basis_builds, run>>

----------------------------------------------------------------------------
(* Structures, positions and atom index lists given to create / derivatives *)

(* a structure: its atom count, the atomic numbers it holds and the scalar  *)
(* triple product of its cell vectors (0: degenerate)                       *)
Systems ==
    {s \in [n_atoms : 1..MaxAtoms,
            numbers : (SUBSET {Elements[1], Outsider}) \ {{}},
            cell_volume : {0, 1}] : Cardinality(s.numbers) <= s.n_atoms}

IntEntry(i) == [kind |-> "int", val |-> i]

(* a sequence entry of length n *)
VecEntry(n) == [kind |-> "vec", val |-> n]

(* an entry that is neither an integer nor a sequence *)
OtherEntry == [kind |-> "other", val |-> 0]

NoPositions == [kind |-> "none", items |-> <<>>]

(* a positions argument that is no list, tuple or array *)
NotAList == [kind |-> "notlist", items |-> <<>>]

ListOf(items) == [kind |-> "list", items |-> items]

Repeat(e, n) == [k \in 1..n |-> e]

(* include / exclude: None, or a list of atom indices *)
NoIndices == [given |-> FALSE, items |-> <<>>]

IndexList(items) == [given |-> TRUE, items |-> items]

----------------------------------------------------------------------------
(* SOAP.prepare_centers *)

AtomCenter(i) == [kind |-> "atom", val |-> i]

PointCenter == [kind |-> "point", val |-> 0]

(* what one entry of positions does in the loop of prepare_centers *)
EntryError(system, e) ==
    IF e.kind = "int"
    THEN \* system.get_positions()[i]: i < 0 counts from the end
         IF e.val >= system.n_atoms \/ e.val < 0 - system.n_atoms
         THEN "index_error" ELSE "none"
    ELSE IF e.kind = "vec"
    THEN IF e.val # 3 THEN "positions" ELSE "none"
    ELSE "positions"

PrepareCentersFailed(e) == [err |-> e, centers |-> <<>>, indices |-> <<>>]

(* Descriptor.check_atomic_numbers: every atomic number of the structure    *)
(* has to be one of the species                                             *)
CheckAtomicNumbers(o, numbers) ==
    IF numbers \subseteq o.atomic_number_set THEN "none" ELSE "atomic_numbers"

(* the atom whose position system.get_positions()[i] is *)
AtomAt(system, i) == IF i < 0 THEN i + system.n_atoms ELSE i

(* what the loop over the entries of a list makes of it *)
ListCenters(system, items) ==
    LET bad == {k \in DOMAIN items : EntryError(system, items[k]) # "none"} IN
    IF bad # {}
    THEN PrepareCentersFailed(
             EntryError(system, items[CHOOSE k \in bad : \A m \in bad : k <= m]))
    ELSE [err |-> "none",
          centers |-> [k \in DOMAIN items |->
                          IF items[k].kind = "int"
                          THEN AtomCenter(AtomAt(system, items[k].val))
                          ELSE PointCenter],
          indices |-> [k \in DOMAIN items |->
                          IF items[k].kind = "int" THEN items[k].val ELSE 0 - 1]]

PrepareCenters_cell_last(o, system, positions) ==
    LET p == IF positions.kind = "none"
             THEN [err |-> "none",
                   centers |-> [k \in 1..system.n_atoms |-> AtomCenter(k - 1)],
                   indices |-> [k \in 1..system.n_atoms |-> k - 1]]
             ELSE IF positions.kind = "notlist" \/ Len(positions.items) = 0
             THEN PrepareCentersFailed("positions")
             ELSE ListCenters(system, positions.items)
    IN
    IF CheckAtomicNumbers(o, system.numbers) # "none"
    THEN PrepareCentersFailed("atomic_numbers")
    ELSE IF p.err # "none" THEN p
    ELSE IF o.periodic /\ system.cell_volume = 0
    THEN PrepareCentersFailed("cell")
    ELSE p

PrepareCenters(o, system, positions) ==
    IF CheckAtomicNumbers(o, system.numbers) # "none"
    THEN PrepareCentersFailed("atomic_numbers")
    ELSE IF o.periodic /\ system.cell_volume = 0
    THEN PrepareCentersFailed("cell")
    ELSE IF positions.kind = "none"
    THEN [err |-> "none",
          centers |-> [k \in 1..system.n_atoms |-> AtomCenter(k - 1)],
          indices |-> [k \in 1..system.n_atoms |-> k - 1]]
    ELSE IF positions.kind = "notlist" \/ Len(positions.items) = 0
    THEN PrepareCentersFailed("positions")
    ELSE ListCenters(system, positions.items)

----------------------------------------------------------------------------
(* SOAP.create_single, SOAP.derivatives_single *)

(* the first dimension of init_descriptor_array / init_derivatives_array *)
InitArrayRows(o, n_centers) ==
    IF o.average = "inner" \/ o.average = "outer" THEN 1 ELSE n_centers

(* get_basis_poly: inv(S) of the all-zero overlap matrix of rcut = 0 raises; *)
(* real: whether sqrtm(inv(S)) came out real                                 *)
GetBasisPolyError(o, real) ==
    IF o.rcut = 0 THEN "singular_matrix"
    ELSE IF ~real THEN "basis_not_real"
    ELSE "none"

SingleFailed(e, builds) ==
    [err |-> e, rows |-> 0, cols |-> 0, backend |-> "none", builds |-> builds,
     d_shape |-> <<>>, c_shape |-> <<>>]

CreateSingle_cached(o, system, positions, real) ==
    LET p == PrepareCenters(o, system, positions) IN
    IF p.err # "none" THEN SingleFailed(p.err, 0)
    ELSE [err |-> "none", rows |-> InitArrayRows(o, Len(p.centers)),
          cols |-> GetNumberOfFeatures(o),
          backend |-> "create", builds |-> 0, d_shape |-> <<>>, c_shape |-> <<>>]

CreateSingle(o, system, positions, real) ==
    LET p == PrepareCenters(o, system, positions)
        n_centers == Len(p.centers)
        n_features == GetNumberOfFeatures(o)
    IN
    IF p.err # "none" THEN SingleFailed(p.err, 0)
    ELSE IF o.rbf = "gto"
    THEN [err |-> "none", rows |-> InitArrayRows(o, n_centers), cols |-> n_features,
          backend |-> "create", builds |-> 0, d_shape |-> <<>>, c_shape |-> <<>>]
    ELSE \* polynomial: get_basis_poly is called here
    IF GetBasisPolyError(o, real) # "none"
    THEN SingleFailed(GetBasisPolyError(o, real), 1)
    ELSE [err |-> "none", rows |-> InitArrayRows(o, n_centers), cols |-> n_features,
          backend |-> "create", builds |-> 1, d_shape |-> <<>>, c_shape |-> <<>>]

DerivativesSingle(o, system, positions, indices, method, return_descriptor, real) ==
    LET p == PrepareCenters(o, system, positions)
        n_centers == Len(p.centers)
        n_indices == Len(indices)
        n_features == GetNumberOfFeatures(o)
        d_shape == <<InitArrayRows(o, n_centers), n_indices, 3, n_features>>
        c_shape == IF return_descriptor
                   THEN <<InitArrayRows(o, n_centers), n_features>>
                   ELSE <<0>>
    IN
    IF p.err # "none" THEN SingleFailed(p.err, 0)
    ELSE IF o.rbf = "gto"
    THEN [err |-> "none", rows |-> d_shape[1], cols |-> n_features,
          backend |-> IF method = "numerical" THEN "derivatives_numerical"
                      ELSE IF method = "analytical" THEN "derivatives_analytical"
                      ELSE "none",
          builds |-> 0, d_shape |-> d_shape, c_shape |-> c_shape]
    ELSE \* polynomial: get_basis_poly is called before the method is looked at
    IF GetBasisPolyError(o, real) # "none"
    THEN SingleFailed(GetBasisPolyError(o, real), 1)
    ELSE [err |-> "none", rows |-> d_shape[1], cols |-> n_features,
          backend |-> IF method = "numerical" THEN "derivatives_numerical" ELSE "none",
          builds |-> 1, d_shape |-> d_shape, c_shape |-> c_shape]

----------------------------------------------------------------------------
(* Descriptor._get_indices: the atoms whose derivative columns are computed *)

GetIndices(n_atoms, include, exclude) ==
    LET all == [k \in 1..n_atoms |-> k - 1]
        invalid(l) == \E k \in DOMAIN l.items : l.items[k] > n_atoms - 1 \/ l.items[k] < 0
        kept == {i \in 0..(n_atoms - 1) : i \notin Range(exclude.items)}
    IN
    IF include.given /\ exclude.given THEN [err |-> "indices", indices |-> <<>>]
    ELSE IF include.given
    THEN IF invalid(include) \/ Len(include.items) = 0
         THEN [err |-> "indices", indices |-> <<>>]
         ELSE [err |-> "none", indices |-> include.items]
    ELSE IF exclude.given
    THEN IF invalid(exclude) \/ kept = {}
         THEN [err |-> "indices", indices |-> <<>>]
         ELSE [err |-> "none", indices |-> SortedSeq(kept)]
    ELSE [err |-> "none", indices |-> all]

----------------------------------------------------------------------------
(* SOAP.derivatives: validation and choice of the method *)

Methods == {"numerical", "analytical", "auto"}

DerivativesError_periodic_analytical(o, method) ==
    IF method \notin Methods THEN "invalid_method"
    ELSE IF o.sparse THEN "sparse"
    ELSE IF o.average # "off" /\ method = "analytical" THEN "analytical_average"
    ELSE IF o.periodic /\ method = "analytical" THEN "periodic"
    ELSE IF o.rbf = "polynomial" /\ method = "analytical" THEN "analytical_polynomial"
    ELSE "none"

DerivativesError_periodic_first(o, method) ==
    IF method \notin Methods THEN "invalid_method"
    ELSE IF o.periodic THEN "periodic"
    ELSE IF o.sparse THEN "sparse"
    ELSE IF o.average # "off" /\ method = "analytical" THEN "analytical_average"
    ELSE IF o.rbf = "polynomial" /\ method = "analytical" THEN "analytical_polynomial"
    ELSE "none"

DerivativesError(o, method) ==
    IF method \notin Methods THEN "invalid_method"
    ELSE IF o.sparse THEN "sparse"
    ELSE IF o.average # "off" /\ method = "analytical" THEN "analytical_average"
    ELSE IF o.periodic THEN "periodic"
    ELSE IF o.rbf = "polynomial" /\ method = "analytical" THEN "analytical_polynomial"
    ELSE "none"

ResolveMethod_ignores_average(o, method) ==
    IF method = "auto"
    THEN IF o.rbf = "polynomial" THEN "numerical" ELSE "analytical"
    ELSE method

ResolveMethod_keeps_auto(o, method) == method

ResolveMethod(o, method) ==
    IF method = "auto"
    THEN IF o.rbf = "polynomial" \/ o.average # "off" THEN "numerical" ELSE "analytical"
    ELSE method

----------------------------------------------------------------------------
(* create and derivatives on one structure *)

(* a structure with the positions, include and exclude given for it *)
Sample(sys, pos, inc, exc) == [sys |-> sys, pos |-> pos, inc |-> inc, exc |-> exc]

(* a few samples for calls on one structure: two well-formed ones, and one  *)
(* each with foreign atoms, with a degenerate cell and with a bad include   *)
FewSamples ==
    LET one == [n_atoms |-> 1, numbers |-> {Elements[1]}, cell_volume |-> 1] IN
    {Sample(one, NoPositions, NoIndices, NoIndices),
     Sample(one, ListOf(<<VecEntry(3)>>), NoIndices, NoIndices),
     Sample([one EXCEPT !.numbers = {Outsider}], NoPositions, NoIndices, NoIndices),
     Sample([one EXCEPT !.cell_volume = 0], NoPositions, NoIndices, NoIndices),
     Sample(one, NoPositions, IndexList(<<1>>), NoIndices)}

(* the outcomes of sqrtm(inv(S)) a call can meet: it only runs for polynomial *)
BasisOutcomes(o) == IF o.rbf = "polynomial" THEN BOOLEAN ELSE {TRUE}

CallCreate(S) ==
    /\ pc = "ready" /\ run = NoRun
    /\ \E x \in S, real \in BasisOutcomes(obj) :
        LET r == CreateSingle(obj, x.sys, x.pos, real) IN
        /\ basis_builds + r.builds <= MaxBuilds
        /\ basis_builds' = basis_builds + r.builds
        /\ last' = [NoCall EXCEPT !.op = "create", !.arg = x, !.err = r.err,
                                  !.backend = r.backend,
                                  !.computed = IF r.backend # "none" THEN 1 ELSE 0,
                                  !.builds = r.builds]
    /\ UNCHANGED <<pc, args, obj, init_err, run>>

RequestedMethods == Methods \cup {"finite_difference"}

CallDerivatives(S) ==
    /\ pc = "ready" /\ run = NoRun
    /\ \E x \in S, requested \in RequestedMethods, return_descriptor \in BOOLEAN,
          real \in BasisOutcomes(obj) :
        LET v == DerivativesError(obj, requested)
            method == ResolveMethod(obj, requested)
            g == GetIndices(x.sys.n_atoms, x.inc, x.exc)
            r == IF v # "none" THEN SingleFailed(v, 0)
                 ELSE IF g.err # "none" THEN SingleFailed(g.err, 0)
                 ELSE DerivativesSingle(obj, x.sys, x.pos, g.indices, method,
                                        return_descriptor, real)
        IN
        /\ basis_builds + r.builds <= MaxBuilds
        /\ basis_builds' = basis_builds + r.builds
        /\ last' = [NoCall EXCEPT !.op = "derivatives",
                                  !.arg = [method |-> requested, sample |-> x,
                                           return_descriptor |-> return_descriptor],
                                  !.err = r.err,
                                  !.method = IF v = "none" THEN method ELSE "none",
                                  !.backend = r.backend,
                                  !.computed = IF r.backend # "none" THEN 1 ELSE 0,
                                  !.builds = r.builds]
    /\ UNCHANGED <<pc, args, obj, init_err, run>>

----------------------------------------------------------------------------
(* create and derivatives on a list of structures.  The argument system is  *)
(* a list (_check_system_list passes); derivatives is followed with         *)
(* return_descriptor=True.                                                  *)

(* a list argument of a batch call: None, or one entry per structure *)
NoList == [given |-> FALSE, items |-> <<>>]

GivenList(items) == [given |-> TRUE, items |-> items]

(* the samples explored in batches: well-formed ones of different sizes,    *)
(* and ones with a single defect                                            *)
BatchSamples ==
    LET one == [n_atoms |-> 1, numbers |-> {Elements[1]}, cell_volume |-> 1] IN
    {Sample(one, NoPositions, NoIndices, NoIndices),
     Sample([one EXCEPT !.n_atoms = MaxAtoms], NoPositions, NoIndices, NoIndices),
     Sample(one, ListOf(Repeat(VecEntry(3), MaxPositions)), NoIndices, NoIndices),
     Sample([one EXCEPT !.n_atoms = MaxAtoms], NoPositions, IndexList(<<0>>), NoIndices),
     Sample([one EXCEPT !.numbers = {Outsider}], NoPositions, NoIndices, NoIndices),
     Sample([one EXCEPT !.cell_volume = 0], NoPositions, NoIndices, NoIndices),
     Sample(one, ListOf(<<VecEntry(2)>>), NoIndices, NoIndices),
     Sample(one, NoPositions, IndexList(<<1>>), NoIndices)}

Batches == UNION {[1..n -> BatchSamples] : n \in 1..MaxSamples}

(* the batches given with one list argument too long: all samples plain *)
PlainBatches ==
    {b \in Batches : \A k \in DOMAIN b :
        b[k] = Sample([n_atoms |-> 1, numbers |-> {Elements[1]}, cell_volume |-> 1],
                      NoPositions, NoIndices, NoIndices)}

(* the arguments system, positions, include, exclude of a batch call made   *)
(* for the given samples; extra names the list given with one entry too many *)
BatchArguments(samples, extra) ==
    LET pos == [k \in DOMAIN samples |-> samples[k].pos]
        inc == [k \in DOMAIN samples |-> samples[k].inc]
        exc == [k \in DOMAIN samples |-> samples[k].exc]
    IN
    [system |-> [k \in DOMAIN samples |-> samples[k].sys],
     positions |-> IF extra = "positions" THEN GivenList(Append(pos, NoPositions))
                   ELSE IF \A k \in DOMAIN pos : pos[k] = NoPositions THEN NoList
                   ELSE GivenList(pos),
     include |-> IF extra = "include" THEN GivenList(Append(inc, NoIndices))
                 ELSE IF \A k \in DOMAIN inc : inc[k] = NoIndices THEN NoList
                 ELSE GivenList(inc),
     exclude |-> IF extra = "exclude" THEN GivenList(Append(exc, NoIndices))
                 ELSE IF \A k \in DOMAIN exc : exc[k] = NoIndices THEN NoList
                 ELSE GivenList(exc)]

(* len() of a list argument, -1 for None *)
ArgumentLength(l) == IF l.given THEN Len(l.items) ELSE 0 - 1

ArgumentSummary(a, n_jobs) ==
    [n_samples |-> Len(a.system), n_positions |-> ArgumentLength(a.positions),
     n_include |-> ArgumentLength(a.include), n_exclude |-> ArgumentLength(a.exclude),
     n_jobs |-> n_jobs]

JobChunks_even(inp, n_jobs) ==
    LET n_samples == Len(inp)
        k == n_samples \div n_jobs
    IN  [j \in 1..n_jobs |->
            LET i == j - 1 IN SubSeq(inp, i * k + 1, (i + 1) * k)]

(* inp[i*k + min(i, m) : (i+1)*k + min(i+1, m)] for i in range(n_jobs) *)
JobChunks(inp, n_jobs) ==
    LET n_samples == Len(inp)
        k == n_samples \div n_jobs
        m == n_samples % n_jobs
    IN  [j \in 1..n_jobs |->
            LET i == j - 1 IN
            SubSeq(inp, i * k + Min(i, m) + 1, (i + 1) * k + Min(i + 1, m))]

RECURSIVE Sum(_)
Sum(s) == IF s = <<>> THEN 0 ELSE Head(s) + Sum(Tail(s))

OutputSize_atoms(o, chunk, positions_given) ==
    IF o.average = "outer" \/ o.average = "inner" THEN Len(chunk)
    ELSE Sum([k \in DOMAIN chunk |-> chunk[k].sys.n_atoms])

(* create: the rows precomputed for one job *)
OutputSize(o, chunk, positions_given) ==
    IF o.average = "outer" \/ o.average = "inner" THEN Len(chunk)
    ELSE IF ~positions_given
    THEN Sum([k \in DOMAIN chunk |-> chunk[k].sys.n_atoms])
    ELSE Sum([k \in DOMAIN chunk |->
                 IF chunk[k].pos.kind # "none" THEN Len(chunk[k].pos.items)
                 ELSE chunk[k].sys.n_atoms])

CreateBatchError_unchecked(system, positions) == "none"

CreateBatchError(system, positions) ==
    IF positions.given /\ Len(positions.items) # Len(system)
    THEN "positions_mismatch"
    ELSE "none"

(* what is handed to create_single / derivatives_single for one sample *)
WorkItem(sys, pos, indices) == [sys |-> sys, pos |-> pos, indices |-> indices]

StartCreateBatch ==
    /\ pc = "ready" /\ run = NoRun
    /\ \E samples \in Batches, extra \in {"none", "positions"},
          n_jobs \in 1..MaxJobs, real \in BasisOutcomes(obj) :
        /\ extra # "none" => samples \in PlainBatches
        /\ LET a == BatchArguments(samples, extra)
               e == CreateBatchError(a.system, a.positions)
               inp == [k \in DOMAIN a.system |->
                          WorkItem(a.system[k],
                                   IF a.positions.given THEN a.positions.items[k]
                                   ELSE NoPositions,
                                   <<>>)]
               jobs == JobChunks(inp, n_jobs)
               output_sizes == [j \in 1..n_jobs |->
                                   OutputSize(obj, jobs[j], a.positions.given)]
           IN
           IF e # "none"
           THEN /\ last' = [NoCall EXCEPT !.op = "create_batch", !.err = e,
                                          !.arg = ArgumentSummary(a, n_jobs)]
                /\ run' = NoRun
           ELSE /\ last' = [NoCall EXCEPT !.op = "create_batch",
                                          !.arg = ArgumentSummary(a, n_jobs),
                                          !.sizes = output_sizes,
                                          !.rows = [j \in 1..n_jobs |-> 0]]
                /\ run' = [op |-> "create", jobs |-> jobs,
                           done |-> [j \in 1..n_jobs |-> 0],
                           method |-> "none", real |-> real]
    /\ UNCHANGED <<pc, args, obj, init_err, basis_builds>>

(* the length checks of derivatives, after None became [None] * n_samples *)
DerivativesBatchError(n_samples, positions, include, exclude) ==
    IF positions.given /\ Len(positions.items) # n_samples THEN "positions_mismatch"
    ELSE IF include.given /\ Len(include.items) # n_samples THEN "include_mismatch"
    ELSE IF exclude.given /\ Len(exclude.items) # n_samples THEN "exclude_mismatch"
    ELSE "none"

(* get_shapes: the shapes predicted for one sample *)
GetShapes(o, item) ==
    LET n_features == GetNumberOfFeatures(o)
        n_positions == IF item.pos.kind = "none" THEN item.sys.n_atoms
                       ELSE IF o.average # "off" THEN 1
                       ELSE Len(item.pos.items)
        n_indices == Len(item.indices)
    IN  <<(<<n_positions, n_indices, 3, n_features>>), (<<n_positions, n_features>>)>>

IsVariable_first_job(o, jobs, shapes) ==
    \E k \in DOMAIN jobs[1] : GetShapes(o, jobs[1][k]) # shapes

IsVariable(o, jobs, shapes) ==
    \E j \in DOMAIN jobs : \E k \in DOMAIN jobs[j] : GetShapes(o, jobs[j][k]) # shapes

StartDerivativesBatch ==
    /\ pc = "ready" /\ run = NoRun
    /\ \E samples \in Batches, extra \in {"none", "positions", "include", "exclude"},
          requested \in RequestedMethods, n_jobs \in 1..MaxJobs,
          real \in BasisOutcomes(obj) :
        /\ extra # "none" => samples \in PlainBatches
        /\ LET a == BatchArguments(samples, extra)
               n_samples == Len(a.system)
               v == DerivativesError(obj, requested)
               method == ResolveMethod(obj, requested)
               e == DerivativesBatchError(n_samples, a.positions, a.include, a.exclude)
               field(l, k, none) == IF l.given THEN l.items[k] ELSE none
               g == [k \in 1..n_samples |->
                        GetIndices(a.system[k].n_atoms,
                                   field(a.include, k, NoIndices),
                                   field(a.exclude, k, NoIndices))]
               inp == [k \in 1..n_samples |->
                          WorkItem(a.system[k], field(a.positions, k, NoPositions),
                                   g[k].indices)]
               jobs == JobChunks(inp, n_jobs)
               shapes == GetShapes(obj, jobs[1][1])
               failed(err) ==
                   /\ last' = [NoCall EXCEPT !.op = "derivatives_batch", !.err = err,
                                             !.arg = ArgumentSummary(a, n_jobs)]
                   /\ run' = NoRun
           IN
           IF v # "none" THEN failed(v)
           ELSE IF e # "none" THEN failed(e)
           ELSE IF \E k \in 1..n_samples : g[k].err # "none" THEN failed("indices")
           ELSE /\ last' = [NoCall EXCEPT !.op = "derivatives_batch",
                                          !.arg = ArgumentSummary(a, n_jobs),
                                          !.method = method,
                                          !.shapes = IF IsVariable(obj, jobs, shapes)
                                                     THEN <<>> ELSE shapes,
                                          !.rows = [j \in 1..n_jobs |-> 0]]
                /\ run' = [op |-> "derivatives", jobs |-> jobs,
                           done |-> [j \in 1..n_jobs |-> 0],
                           method |-> method, real |-> real]
    /\ UNCHANGED <<pc, args, obj, init_err, basis_builds>>

(* create_parallel / derivatives_parallel: a job takes the next sample of   *)
(* its chunk; an exception aborts the batch                                 *)
StepJob ==
    /\ run.op # "none"
    /\ \E j \in DOMAIN run.jobs :
        /\ run.done[j] < Len(run.jobs[j])
        /\ LET item == run.jobs[j][run.done[j] + 1]
               r == IF run.op = "create"
                    THEN CreateSingle(obj, item.sys, item.pos, run.real)
                    ELSE DerivativesSingle(obj, item.sys, item.pos, item.indices,
                                           run.method, TRUE, run.real)
               done == [run.done EXCEPT ![j] = @ + 1]
           IN
           /\ basis_builds + r.builds <= MaxBuilds
           /\ basis_builds' = basis_builds + r.builds
           /\ IF r.err # "none"
              THEN /\ last' = [last EXCEPT !.err = r.err, !.builds = @ + r.builds]
                   /\ run' = NoRun
              ELSE /\ last' = [last EXCEPT !.backend = r.backend,
                                           !.computed = @ + (IF r.backend # "none" THEN 1 ELSE 0),
                                           !.builds = @ + r.builds,
                                           !.rows[j] = @ + r.rows,
                                           !.predicted = IF run.op = "create" THEN <<>>
                                                         ELSE GetShapes(obj, item),
                                           !.allocated = IF run.op = "create" THEN <<>>
                                                         ELSE <<r.d_shape, r.c_shape>>]
                   /\ run' = IF \A i \in DOMAIN run.jobs : done[i] = Len(run.jobs[i])
                             THEN NoRun
                             ELSE [run EXCEPT !.done = done]
    /\ UNCHANGED <<pc, args, obj, init_err>>

----------------------------------------------------------------------------
(* The chunking of create / derivatives on its own: a batch of n_samples    *)
(* inputs, told apart by their place in the list, cut for n_jobs workers    *)

(* inp for a batch of n samples *)
NumberedInput(n) == [i \in 1..n |-> i]

Chunk ==
    /\ pc = "chunking"
    /\ pc' = "chunked"
    /\ run' = [NoRun EXCEPT !.op = "chunks",
                            !.jobs = JobChunks(NumberedInput(args.n_samples), args.n_jobs)]
    /\ UNCHANGED <<args, obj, init_err, basis_builds, last>>

----------------------------------------------------------------------------
(* prepare_centers and create on one structure, over every shape of the     *)
(* positions argument                                                       *)

(* the entries a positions list can hold: integers inside and outside the   *)
(* atoms of a structure, sequences of length 2 and 3, something else        *)
PositionEntries ==
    {IntEntry(i) : i \in (0 - MaxAtoms - 1)..MaxAtoms}
        \cup {VecEntry(2), VecEntry(3), OtherEntry}

PositionArguments ==
    {NoPositions, NotAList}
        \cup {ListOf(l) : l \in UNION {[1..n -> PositionEntries] : n \in 0..MaxPositions}}

CenterSamples ==
    {Sample(s, p, NoIndices, NoIndices) : s \in Systems, p \in PositionArguments}

CallPrepareCenters ==
    /\ pc = "ready" /\ run = NoRun
    /\ \E x \in CenterSamples :
        LET p == PrepareCenters(obj, x.sys, x.pos) IN
        last' = [NoCall EXCEPT !.op = "prepare_centers", !.arg = x, !.err = p.err,
                               !.centers = p.centers, !.indices = p.indices]
    /\ UNCHANGED <<pc, args, obj, init_err, basis_builds, run>>

----------------------------------------------------------------------------
(* The species property: assigning to it on a built descriptor runs the     *)
(* setter again, for a valid species list                                   *)

AssignSpecies ==
    /\ pc = "ready" /\ run = NoRun
    /\ \E value \in InjectiveSeqs(Universe, MaxSpecies) :
        LET numbers == SetSpecies(value) IN
        /\ obj' = [obj EXCEPT !.species = value,
                              !.atomic_numbers = numbers,
                              !.atomic_number_set = Range(value),
                              !.atomic_number_to_index = AtomicNumberToIndex(numbers),
                              !.index_to_atomic_number = IndexToAtomicNumber(numbers),
                              !.n_elements = Len(numbers)]
        /\ last' = [NoCall EXCEPT !.op = "set_species", !.arg = value]
    /\ UNCHANGED <<pc, args, init_err, basis_builds, run>>

----------------------------------------------------------------------------
(* Specifications *)

SpeciesInputs == InjectiveSeqs(Universe, MaxSpecies)

(* every argument of __init__, valid or not *)
InitArgs ==
    [rcut : {0 - 1, 0, 1, 2, 3}, nmax : 0..MaxNmax,
     lmax : ((0 - 1)..MaxLmax) \cup {GtoLmaxLimit, PolyLmaxLimit, PolyLmaxLimit + 1},
     sigma : {0 - 1, 0, 1}, rbf : {"gto", "polynomial", "slater"},
     species : {<<Elements[1]>>}, periodic : {FALSE}, crossover : {TRUE},
     average : {"off", "inner", "outer", "mean"}, sparse : {FALSE}]

(* valid configurations, varied in what decides the layout *)
LayoutArgs ==
    [rcut : {3}, nmax : 1..MaxNmax, lmax : 0..MaxLmax, sigma : {1}, rbf : {"gto"},
     species : SpeciesInputs, periodic : {FALSE}, crossover : BOOLEAN,
     average : {"off"}, sparse : {FALSE}]

Start(A) ==
    /\ pc = "new"
    /\ args \in A
    /\ obj = NoObject
    /\ init_err = "none"
    /\ basis_builds = 0
    /\ last = NoCall
    /\ run = NoRun

InitInit == Start(InitArgs)

NextInit == Construct

SpecInit == InitInit /\ [][NextInit]_vars

InitLayout == Start(LayoutArgs)

(* The two queries leave the object and everything but last as they found   *)
(* it, so a second query reaches no state the first does not: one query is  *)
(* followed per object.                                                     *)
NextLayout ==
    \/ Construct
    \/ (last = NoCall /\ CallGetNumberOfFeatures)
    \/ (last = NoCall /\ CallGetLocation)

SpecLayout == InitLayout /\ [][NextLayout]_vars

(* valid configurations, varied in what derivatives() looks at *)
CallArgs ==
    [rcut : {3}, nmax : {1}, lmax : {0}, sigma : {1}, rbf : {"gto", "polynomial"},
     species : {<<Elements[1]>>}, periodic : BOOLEAN, crossover : {TRUE},
     average : {"off", "inner", "outer"}, sparse : BOOLEAN]

InitCalls == Start(CallArgs)

NextCalls == Construct \/ CallCreate(FewSamples) \/ CallDerivatives(FewSamples)

SpecCalls == InitCalls /\ [][NextCalls]_vars

(* valid configurations for batch calls *)
BatchArgs ==
    [rcut : {3}, nmax : {1}, lmax : {0}, sigma : {1}, rbf : {"gto", "polynomial"},
     species : {<<Elements[1]>>}, periodic : BOOLEAN, crossover : {TRUE},
     average : {"off", "inner", "outer"}, sparse : {FALSE}]

InitBatch == Start(BatchArgs)

(* A call leaves the object as it found it, so one batch call is followed   *)
(* per object.                                                              *)
NextBatch ==
    \/ Construct
    \/ (last = NoCall /\ StartCreateBatch)
    \/ (last = NoCall /\ StartDerivativesBatch)
    \/ StepJob

SpecBatch == InitBatch /\ [][NextBatch]_vars

(* batch sizes and worker counts for the chunking alone *)
ChunkArgs == [n_samples : 1..MaxChunkSamples, n_jobs : 1..MaxChunkJobs]

InitChunks ==
    /\ pc = "chunking"
    /\ args \in ChunkArgs
    /\ obj = NoObject
    /\ init_err = "none"
    /\ basis_builds = 0
    /\ last = NoCall
    /\ run = NoRun

NextChunks == Chunk

SpecChunks == InitChunks /\ [][NextChunks]_vars

(* valid configurations, varied in what prepare_centers looks at *)
CenterArgs ==
    [rcut : {3}, nmax : {1}, lmax : {0}, sigma : {1}, rbf : {"gto"},
     species : {<<Elements[1]>>}, periodic : BOOLEAN, crossover : {TRUE},
     average : {"off", "inner"}, sparse : {FALSE}]

InitCenters == Start(CenterArgs)

(* A call leaves the object as it found it, so one call is followed per     *)
(* object.                                                                  *)
NextCenters ==
    \/ Construct
    \/ (last = NoCall /\ CallPrepareCenters)
    \/ (last = NoCall /\ CallCreate(CenterSamples))

SpecCenters == InitCenters /\ [][NextCenters]_vars

(* the operations of a descriptor over its lifetime, from one species *)
LifetimeArgs ==
    [rcut : {3}, nmax : {MaxNmax}, lmax : {MaxLmax}, sigma : {1}, rbf : {"gto"},
     species : {<<Elements[1]>>, <<Elements[2], Elements[1]>>}, periodic : {FALSE},
     crossover : BOOLEAN, average : {"off"}, sparse : {FALSE}]

InitLifetime == Start(LifetimeArgs)

NextLifetime ==
    \/ Construct
    \/ CallGetNumberOfFeatures
    \/ CallGetLocation
    \/ CallCreate(FewSamples)
    \/ AssignSpecies

SpecLifetime == InitLifetime /\ [][NextLifetime]_vars

----------------------------------------------------------------------------
(* Feature vector layout: C1, C2, C3 *)

(* the number of pairs (a, b) with a <= b out of n items: C(n, 2) + n *)
PairsWithRepetition(n) ==
    Cardinality({p \in (1..n) \X (1..n) : p[1] <= p[2]})

ConfiguredSpecies == Cardinality(Range(args.species))

(* C1: for every valid configuration, get_number_of_features() returns      *)
(* exactly (n_elem*nmax)*(n_elem*nmax+1)/2*(lmax+1) with crossover, i.e.     *)
(* the number of unordered pairs with repetition over the joint             *)
(* species x radial index times (lmax+1), and n_elem*nmax*(nmax+1)/2*(lmax+1)*)
(* without crossover; the division by two loses nothing.                     *)
C1_FeatureCount ==
    last.op = "get_number_of_features" =>
        LET n_elem == ConfiguredSpecies IN
        IF args.crossover
        THEN /\ last.value = PairsWithRepetition(n_elem * args.nmax) * (args.lmax + 1)
             /\ 2 * last.value = (n_elem * args.nmax) * (n_elem * args.nmax + 1) * (args.lmax + 1)
        ELSE /\ last.value = n_elem * PairsWithRepetition(args.nmax) * (args.lmax + 1)
             /\ 2 * last.value = n_elem * args.nmax * (args.nmax + 1) * (args.lmax + 1)

C1_Witness ==
    /\ last.op = "get_number_of_features"
    /\ args.crossover
    /\ ConfiguredSpecies = 2 /\ args.nmax = 2 /\ args.lmax = 1
    /\ last.value = 20

(* the range get_location gives for the internal species indices i, j *)
LocationOf(i, j) ==
    GetLocation(obj, <<obj.index_to_atomic_number[i], obj.index_to_atomic_number[j]>>)

SpeciesPairs == {p \in (0..(obj.n_elements - 1)) \X (0..(obj.n_elements - 1)) : p[1] <= p[2]}

(* the place of the pair p in the row-major order of the upper triangle *)
RowMajorRank(p) ==
    Cardinality({q \in SpeciesPairs : q[1] < p[1] \/ (q[1] = p[1] /\ q[2] < p[2])})

(* C2: with crossover, the get_location ranges of all unordered species    *)
(* pairs, in row-major upper-triangle order of the internal indices, are    *)
(* consecutive, start at 0 and end at get_number_of_features(); a           *)
(* same-species range has nmax*(nmax+1)/2*(lmax+1) entries and a            *)
(* cross-species range nmax*nmax*(lmax+1).                                  *)
C2_LocationPartition ==
    (pc = "ready" /\ obj.crossover) =>
        \A p \in SpeciesPairs :
            LET r == LocationOf(p[1], p[2]) IN
            /\ r.err = "none"
            /\ r.start < r.stop
            /\ RowMajorRank(p) = 0 => r.start = 0
            /\ RowMajorRank(p) = Cardinality(SpeciesPairs) - 1
                   => r.stop = GetNumberOfFeatures(obj)
            /\ \A q \in SpeciesPairs :
                   RowMajorRank(q) = RowMajorRank(p) + 1
                       => LocationOf(q[1], q[2]).start = r.stop
            /\ p[1] = p[2] => 2 * (r.stop - r.start) = obj.nmax * (obj.nmax + 1) * (obj.lmax + 1)
            /\ p[1] # p[2] => r.stop - r.start = obj.nmax * obj.nmax * (obj.lmax + 1)

C2_Witness ==
    /\ pc = "ready" /\ obj.crossover /\ obj.n_elements >= 3 /\ obj.nmax >= 2
    /\ last.op = "get_location" /\ last.err = "none"
    /\ last.arg[1] # last.arg[2]
    /\ last.start > 0
    /\ last.stop = GetNumberOfFeatures(obj) - TruncHalves(obj.nmax * (obj.nmax + 1) * (obj.lmax + 1))

(* the configuration species=[1,8], rcut=3.0, nmax=2, lmax=1, crossover=False *)
WaterConfiguration ==
    /\ pc = "ready"
    /\ args.species = <<1, 8>> /\ args.rcut = 3 /\ args.nmax = 2 /\ args.lmax = 1
    /\ ~args.crossover

(* C3 as stated: for species=[1,8], rcut=3.0, nmax=2, lmax=1,               *)
(* crossover=False, get_number_of_features() is 6.                          *)
C3_Original ==
    (WaterConfiguration /\ last.op = "get_number_of_features") => last.value = 6

(* C3, amended: for species=[1,8], rcut=3.0, nmax=2, lmax=1,                *)
(* crossover=False, get_number_of_features() is 12                          *)
(* (2 species * 3 radial pairs * 2 angular degrees).                        *)
C3_WaterFeatureCount ==
    (WaterConfiguration /\ last.op = "get_number_of_features") => last.value = 12

C3_Witness ==
    WaterConfiguration /\ last.op = "get_number_of_features" /\ last.value = 12

----------------------------------------------------------------------------
(* Construction: C7, C8 *)

(* the errors of the argument checks of __init__ *)
CheckErrors ==
    {"sigma", "lmax_negative", "rbf", "nmax", "average", "gto_rcut", "gto_lmax", "poly_lmax"}

Rejected(a) ==
    \/ a.sigma <= 0
    \/ a.lmax < 0
    \/ a.nmax < 1
    \/ a.rbf \notin {"gto", "polynomial"}
    \/ a.average \notin {"off", "inner", "outer"}
    \/ (a.rbf = "gto" /\ a.rcut <= 1)
    \/ (a.rbf = "gto" /\ a.lmax > 19)
    \/ (a.rbf = "polynomial" /\ a.lmax > 20)

(* C7: the constructor raises a configuration error when sigma <= 0,        *)
(* lmax < 0, nmax < 1, rbf or average is not a supported name, rbf=gto with *)
(* rcut <= 1 or lmax > 19, or rbf=polynomial with lmax > 20, and then no     *)
(* radial basis has been computed; no other configuration (so none at       *)
(* nmax=1, lmax=0, lmax=19 for gto, lmax=20 for polynomial) is rejected by  *)
(* these checks.                                                            *)
C7_ConstructorChecks ==
    pc # "new" =>
        /\ Rejected(args) => (pc = "failed" /\ init_err \in CheckErrors /\ basis_builds = 0)
        /\ ~Rejected(args) => init_err \notin CheckErrors

C7_Witness ==
    /\ pc = "ready"
    /\ args.rbf = "gto" /\ args.lmax = 19 /\ args.nmax = 1 /\ args.rcut = 2
    /\ basis_builds = 1

(* C8: constructing a descriptor with rcut <= 0 fails with a configuration  *)
(* error, whether rbf is gto or polynomial.                                 *)
C8_RcutPositive ==
    (pc # "new" /\ args.rcut <= 0) => (pc = "failed" /\ init_err # "none")

----------------------------------------------------------------------------
(* derivatives(): C4, C5, C6 *)

DerivativesCalled == pc = "ready" /\ last.op = "derivatives"

Requested == last.arg.method

(* the four rejected combinations, in the order of the specification *)
RejectionOrder == <<"sparse", "analytical_average", "periodic", "analytical_polynomial">>

Holds(k) ==
    IF k = 1 THEN obj.sparse
    ELSE IF k = 2 THEN Requested = "analytical" /\ obj.average # "off"
    ELSE IF k = 3 THEN obj.periodic
    ELSE Requested = "analytical" /\ obj.rbf = "polynomial"

RejectionErrors == Range(RejectionOrder)

(* C4: derivatives() rejects, before any computation, sparse output,        *)
(* analytical under averaging, a periodic descriptor (whatever the method)  *)
(* and analytical with the polynomial basis; for a method name of the       *)
(* interface the error is that of the first of these conditions that holds, *)
(* in this order, and none of these errors is raised when none holds.       *)
C4_RejectionOrder ==
    DerivativesCalled =>
        /\ (\E k \in 1..4 : Holds(k)) =>
               (last.err # "none" /\ last.computed = 0 /\ last.builds = 0)
        /\ Requested \in {"numerical", "analytical", "auto"} =>
               /\ \A k \in 1..4 :
                      (Holds(k) /\ \A m \in 1..(k - 1) : ~Holds(m))
                          => last.err = RejectionOrder[k]
               /\ (\A k \in 1..4 : ~Holds(k)) => last.err \notin RejectionErrors

C4_Witness ==
    /\ DerivativesCalled
    /\ Requested = "analytical"
    /\ ~obj.sparse /\ obj.average = "inner" /\ obj.periodic /\ obj.rbf = "polynomial"
    /\ last.err = "analytical_average"

(* the call passed the validation of derivatives() *)
Accepted == last.err \notin (RejectionErrors \cup {"invalid_method"})

(* C5 as stated: a numerical request on a non-sparse descriptor is accepted *)
(* for every basis and averaging mode, also on a periodic descriptor.       *)
C5_Original ==
    (DerivativesCalled /\ Requested = "numerical" /\ ~obj.sparse) => Accepted

(* C5, amended: a numerical request on a non-sparse, non-periodic           *)
(* descriptor is accepted for every basis family and averaging mode and,    *)
(* when the structure and its arguments are valid, runs the numerical       *)
(* computation; a numerical request on a periodic non-sparse descriptor is  *)
(* rejected (derivatives are not available for periodic descriptors).       *)
C5_NumericalAccepted ==
    (DerivativesCalled /\ Requested = "numerical" /\ ~obj.sparse) =>
        /\ ~obj.periodic =>
               /\ Accepted
               /\ last.method = "numerical"
               /\ last.err = "none" => last.backend = "derivatives_numerical"
        /\ obj.periodic => (last.err = "periodic" /\ last.computed = 0)

C5_Witness ==
    /\ DerivativesCalled /\ Requested = "numerical"
    /\ ~obj.sparse /\ ~obj.periodic /\ obj.rbf = "polynomial" /\ obj.average = "outer"
    /\ last.err = "none" /\ last.backend = "derivatives_numerical"

Eligible == obj.rbf = "gto" /\ ~obj.periodic /\ obj.average = "off"

(* C6: a method=auto call that passes validation uses analytical exactly    *)
(* when rbf=gto, the descriptor is non-periodic and average=off, and        *)
(* numerical otherwise; method=auto never fails with one of the             *)
(* analytical-only errors.                                                  *)
C6_AutoSelection ==
    (DerivativesCalled /\ Requested = "auto") =>
        /\ last.err \notin {"analytical_average", "analytical_polynomial"}
        /\ Accepted =>
               /\ last.method = (IF Eligible THEN "analytical" ELSE "numerical")
               /\ last.err = "none" =>
                      last.backend = (IF Eligible THEN "derivatives_analytical"
                                      ELSE "derivatives_numerical")

C6_Witness ==
    /\ DerivativesCalled /\ Requested = "auto"
    /\ obj.rbf = "gto" /\ obj.average = "inner" /\ ~obj.periodic /\ ~obj.sparse
    /\ last.err = "none" /\ last.method = "numerical"

----------------------------------------------------------------------------
(* The radial basis: C10 *)

----------------------------------------------------------------------------
(* Batch calls: C9 *)

BatchCalled == last.op \in {"create_batch", "derivatives_batch"}

(* raised by the batch entry point itself *)
EagerErrors == {"positions_mismatch", "include_mismatch", "exclude_mismatch", "indices"}

(* raised by prepare_centers of one structure *)
PerStructureErrors == {"atomic_numbers", "cell", "positions"}

(* C9 as stated: in create() and derivatives() on a list of structures,     *)
(* every configuration error is raised before the computation of any        *)
(* structure of the batch has started.                                      *)
C9_Original ==
    (BatchCalled /\ last.err \in (EagerErrors \cup PerStructureErrors))
        => last.computed = 0

(* C9, amended: mismatched batch-argument lengths and, in derivatives(),    *)
(* malformed include/exclude are raised before the computation of any       *)
(* structure has started.  Out-of-species atomic numbers, a degenerate cell *)
(* under periodicity and malformed positions are found per structure, when  *)
(* its turn comes in its job: that structure is not computed and the batch  *)
(* ends there, but the structures taken before it have been computed.       *)
C9_ErrorTiming ==
    BatchCalled =>
        /\ (last.arg.n_positions \notin {0 - 1, last.arg.n_samples}
            \/ (last.op = "derivatives_batch"
                /\ (last.arg.n_include \notin {0 - 1, last.arg.n_samples}
                    \/ last.arg.n_exclude \notin {0 - 1, last.arg.n_samples})))
               => /\ last.err \in EagerErrors \cup RejectionErrors \cup {"invalid_method"}
                  /\ last.op = "create_batch" => last.err = "positions_mismatch"
                  /\ last.computed = 0 /\ run = NoRun
        /\ last.err \in EagerErrors => (last.computed = 0 /\ run = NoRun)
        /\ last.err \in PerStructureErrors =>
               (run = NoRun /\ last.computed < last.arg.n_samples)
        /\ run # NoRun =>
               (last.err = "none" /\ last.computed = Sum(run.done)
                /\ \A j \in DOMAIN run.jobs : \A k \in 1..run.done[j] :
                       PrepareCenters(obj, run.jobs[j][k].sys, run.jobs[j][k].pos).err = "none")

C9_Witness ==
    /\ last.op = "create_batch" /\ last.err = "atomic_numbers"
    /\ last.arg.n_jobs = 1 /\ last.arg.n_samples = 2
    /\ last.computed = 1

----------------------------------------------------------------------------
(* Chunking of a batch: C11 *)

RECURSIVE Concatenation(_)
Concatenation(chunks) ==
    IF chunks = <<>> THEN <<>> ELSE Head(chunks) \o Concatenation(Tail(chunks))

(* C11: for every batch of n_samples >= 1 inputs and every n_jobs >= 1,     *)
(* also n_jobs > n_samples, there are n_jobs chunks, their concatenation in *)
(* job order is the input list itself, their sizes differ by at most one    *)
(* and the first chunk is not empty.                                        *)
C11_Chunking ==
    pc = "chunked" =>
        /\ Len(run.jobs) = args.n_jobs
        /\ Concatenation(run.jobs) = NumberedInput(args.n_samples)
        /\ \A i, j \in DOMAIN run.jobs : Len(run.jobs[i]) - Len(run.jobs[j]) <= 1
        /\ Len(run.jobs[1]) >= 1

(* more workers than samples: the last chunk is empty, and so is the one    *)
(* before it                                                                *)
C11_Witness ==
    /\ pc = "chunked"
    /\ args.n_jobs > args.n_samples + 1
    /\ args.n_samples > 1
    /\ run.jobs[args.n_jobs] = <<>>
    /\ run.jobs[args.n_samples] # <<>>

----------------------------------------------------------------------------
(* The cell check of center preparation: C12 *)

CreateCalled == pc = "ready" /\ last.op = "create"

ForeignAtoms == ~(last.arg.sys.numbers \subseteq Range(args.species))

WellFormedPositions ==
    \/ last.arg.pos.kind = "none"
    \/ /\ last.arg.pos.kind = "list"
       /\ last.arg.pos.items # <<>>
       /\ \A k \in DOMAIN last.arg.pos.items :
            LET e == last.arg.pos.items[k] IN
            \/ e.kind = "vec" /\ e.val = 3
            \/ /\ e.kind = "int"
               /\ e.val < last.arg.sys.n_atoms
               /\ e.val >= 0 - last.arg.sys.n_atoms

(* C12: without periodicity a structure with a degenerate cell is accepted  *)
(* (create succeeds when nothing else is wrong with the call and never      *)
(* reports the cell); with periodicity a degenerate cell makes create fail  *)
(* with the cell error whatever the positions are, unless the structure     *)
(* holds an atom outside the species, which is reported instead.            *)
C12_CellCheck ==
    CreateCalled /\ last.arg.sys.cell_volume = 0 =>
        /\ ~args.periodic => /\ last.err # "cell"
                             /\ ~ForeignAtoms /\ WellFormedPositions
                                    => last.err = "none" /\ last.computed = 1
        /\ args.periodic =>
              /\ last.computed = 0
              /\ last.err = IF ForeignAtoms THEN "atomic_numbers" ELSE "cell"

(* a periodic descriptor given a degenerate cell together with a positions  *)
(* argument that is no list: the cell is what is reported                   *)
C12_Witness ==
    /\ CreateCalled
    /\ args.periodic
    /\ last.arg.sys.cell_volume = 0
    /\ last.arg.pos = NotAList
    /\ last.err = "cell"

----------------------------------------------------------------------------
(* The centers returned by center preparation: C19 *)

(* prepare_centers was called on a structure that passes its checks of the  *)
(* atomic numbers and of the cell                                           *)
CentersPrepared ==
    /\ pc = "ready" /\ last.op = "prepare_centers"
    /\ last.arg.sys.numbers \subseteq Range(args.species)
    /\ ~(args.periodic /\ last.arg.sys.cell_volume = 0)

(* the positions arguments named as failing: no list, an empty list, an     *)
(* entry that is a sequence of length other than 3, an entry that is        *)
(* neither an integer nor a sequence                                        *)
MalformedPositions ==
    \/ last.arg.pos.kind = "notlist"
    \/ /\ last.arg.pos.kind = "list"
       /\ \/ last.arg.pos.items = <<>>
          \/ \E k \in DOMAIN last.arg.pos.items :
                LET e == last.arg.pos.items[k] IN
                \/ e.kind = "vec" /\ e.val # 3
                \/ e.kind = "other"

(* C19: center preparation returns one center and one index per requested   *)
(* position, in the given order: with positions=None all atoms with indices *)
(* 0..n_atoms-1, for an integer entry i atom i's position with index i, for *)
(* a 3-vector that point with index -1; it fails, returning nothing, when   *)
(* positions is malformed.                                                  *)
C19_Centers ==
    CentersPrepared =>
        LET n_atoms == last.arg.sys.n_atoms
            items == last.arg.pos.items
        IN
        IF MalformedPositions
        THEN last.err # "none" /\ last.centers = <<>> /\ last.indices = <<>>
        ELSE /\ last.err = "none"
             /\ IF last.arg.pos.kind = "none"
                THEN /\ last.centers = [k \in 1..n_atoms |-> AtomCenter(k - 1)]
                     /\ last.indices = [k \in 1..n_atoms |-> k - 1]
                ELSE /\ Len(last.centers) = Len(items)
                     /\ Len(last.indices) = Len(items)
                     /\ \A k \in DOMAIN items :
                          IF items[k].kind = "int"
                          THEN /\ last.centers[k] = AtomCenter(items[k].val)
                               /\ last.indices[k] = items[k].val
                          ELSE /\ last.centers[k] = PointCenter
                               /\ last.indices[k] = 0 - 1

----------------------------------------------------------------------------
(* The errors of get_location: C13 *)

LocationCalled == pc = "ready" /\ last.op = "get_location"

NoRangeReturned == last.start = 0 /\ last.stop = 0

(* C13: get_location fails, for either crossover setting, when its argument *)
(* does not have exactly two entries or names a species that is not         *)
(* configured, and with crossover=False for every pair of two different     *)
(* configured species; whenever it fails no range is returned.              *)
C13_LocationErrors ==
    LocationCalled =>
        LET query == last.arg
            configured == Range(args.species)
        IN
        /\ Len(query) # 2 => last.err = "not_a_pair"
        /\ (Len(query) = 2 /\ ~(Range(query) \subseteq configured))
                => last.err = "unknown_species"
        /\ (/\ ~args.crossover
            /\ Len(query) = 2
            /\ Range(query) \subseteq configured
            /\ query[1] # query[2]) => last.err = "no_crossover"
        /\ last.err # "none" => NoRangeReturned

(* crossover=False and the last two of three configured species *)
C13_Witness ==
    /\ LocationCalled
    /\ ~args.crossover
    /\ Len(args.species) = MaxSpecies
    /\ last.arg = <<args.species[MaxSpecies], args.species[MaxSpecies - 1]>>
    /\ last.err = "no_crossover"

----------------------------------------------------------------------------
(* The species over the lifetime of a descriptor: C14 *)

SpeciesState(o) ==
    <<o.species, o.atomic_numbers, o.atomic_number_set, o.atomic_number_to_index,
      o.index_to_atomic_number, o.n_elements>>

(* C14: after construction no operation on the descriptor changes the       *)
(* species list, the species index maps, get_number_of_features() or a      *)
(* get_location range.                                                      *)
C14_SpeciesFixed ==
    [][pc = "ready" =>
          /\ SpeciesState(obj') = SpeciesState(obj)
          /\ GetNumberOfFeatures(obj') = GetNumberOfFeatures(obj)
          /\ \A query \in LocationQueries :
                GetLocation(obj', query) = GetLocation(obj, query)]_vars

----------------------------------------------------------------------------
(* Shapes and sizes computed ahead of a batch: C16, C17, C18 *)

DerivativesBatchCalled == pc = "ready" /\ last.op = "derivatives_batch"

(* C16: in batch derivatives(), for every sample, every averaging mode and  *)
(* positions None or given, the shapes get_shapes predicts for the sample   *)
(* (derivatives and descriptor) are the shapes of the arrays                *)
(* derivatives_single allocates and returns for it.                         *)
C16_PredictedShapes ==
    (DerivativesBatchCalled /\ last.allocated # <<>>) => last.predicted = last.allocated


CreateBatchRunning == pc = "ready" /\ last.op = "create_batch" /\ last.err = "none"

(* every sample of job j has returned *)
JobFinished(j) == run = NoRun \/ run.done[j] = Len(run.jobs[j])

(* the rows create_single returns for one sample *)
RowsOf(item) ==
    IF args.average \in {"inner", "outer"} THEN 1
    ELSE IF item.pos.kind = "none" THEN item.sys.n_atoms
    ELSE Len(item.pos.items)

(* C17: in batch create(), the row count computed in advance for a job is   *)
(* the total of the rows create_single returns for the samples of its       *)
(* chunk: one row per sample when average is inner or outer, otherwise one  *)
(* per center of each sample (its atoms when its positions is None, else    *)
(* the entries of its positions list).                                      *)
C17_OutputSizes ==
    CreateBatchRunning =>
        /\ \A j \in DOMAIN last.sizes : JobFinished(j) => last.rows[j] = last.sizes[j]
        /\ run # NoRun =>
              \A j \in DOMAIN run.jobs :
                 last.sizes[j] = Sum([k \in DOMAIN run.jobs[j] |-> RowsOf(run.jobs[j][k])])

(* a finished batch without averaging, of a structure with positions given  *)
(* and a larger structure without                                           *)
C17_Witness ==
    /\ CreateBatchRunning
    /\ run = NoRun
    /\ args.average = "off"
    /\ last.arg.n_samples = 2 /\ last.arg.n_positions = 2 /\ last.arg.n_jobs = 1
    /\ last.computed = 2
    /\ last.rows = <<MaxPositions + MaxAtoms>>
    /\ last.sizes = last.rows


(* a batch derivatives() has passed its checks and its jobs are still at    *)
(* work: run.jobs holds the samples as handed on                            *)
DerivativesBatchRunning ==
    DerivativesBatchCalled /\ last.err = "none" /\ run.op = "derivatives"

(* C18: in batch derivatives(), the shapes handed to the parallel layer are *)
(* replaced by "no fixed shape" exactly when the predicted derivative or    *)
(* descriptor shape of at least one sample differs from that of the first   *)
(* sample; otherwise the common predicted shapes are handed on.             *)
C18_VariableShapes ==
    DerivativesBatchRunning =>
        LET samples == Concatenation(run.jobs)
            first == GetShapes(obj, samples[1])
            differs(k) == \/ GetShapes(obj, samples[k])[1] # first[1]
                          \/ GetShapes(obj, samples[k])[2] # first[2]
        IN  IF \E k \in DOMAIN samples : differs(k)
            THEN last.shapes = <<>>
            ELSE last.shapes = first

(* two jobs of one sample each, the second with a shape of its own *)
C18_Witness ==
    /\ DerivativesBatchRunning
    /\ Len(run.jobs) = 2
    /\ Len(run.jobs[1]) = 1 /\ Len(run.jobs[2]) = 1
    /\ GetShapes(obj, run.jobs[2][1]) # GetShapes(obj, run.jobs[1][1])
    /\ last.shapes = <<>>

----------------------------------------------------------------------------
(* The gto tables built at construction: C20 *)

(* C20: for every gto configuration the constructor accepts, lmax from 0 up *)
(* to 19, the alpha and beta tables built at construction hold an entry for *)
(* every angular degree l in 0..lmax.                                       *)
C20_GtoTables ==
    (pc = "ready" /\ args.rbf = "gto") => (0..args.lmax) \subseteq obj.alphas_degrees

----------------------------------------------------------------------------
(* The method handed to derivatives_single: C21 *)

Backends == {"derivatives_numerical", "derivatives_analytical"}

(* C21: whenever derivatives() passes its validation, the method handed to  *)
(* derivatives_single is numerical or analytical, never auto; it is         *)
(* analytical only if rbf=gto, average=off and the descriptor is neither    *)
(* periodic nor sparse, and numerical whenever rbf=polynomial; so a         *)
(* derivatives_single that returns has run exactly one backend computation, *)
(* the one of that method.                                                  *)
C21_MethodHandedOn ==
    (DerivativesCalled /\ Accepted) =>
        /\ last.method \in {"numerical", "analytical"}
        /\ last.method = "analytical" =>
               (obj.rbf = "gto" /\ obj.average = "off" /\ ~obj.periodic /\ ~obj.sparse)
        /\ obj.rbf = "polynomial" => last.method = "numerical"
        /\ last.err = "none" =>
               /\ last.computed = 1
               /\ last.backend \in Backends
               /\ last.backend = "derivatives_analytical" <=> last.method = "analytical"

(* auto on a polynomial descriptor: numerical is handed on and runs *)
C21_Witness ==
    /\ DerivativesCalled /\ Requested = "auto"
    /\ obj.rbf = "polynomial" /\ obj.average = "off" /\ ~obj.periodic /\ ~obj.sparse
    /\ last.err = "none" /\ last.method = "numerical"
    /\ last.backend = "derivatives_numerical" /\ last.computed = 1

----------------------------------------------------------------------------
(* The layout without crossover and the symmetry of get_location: C22 *)

(* C22: with crossover=False the get_location ranges of the same-species    *)
(* pairs (Z, Z) of all configured species, in internal species-index order, *)
(* are consecutive blocks of nmax*(nmax+1)/2*(lmax+1) entries from 0 to     *)
(* get_number_of_features(); for either crossover setting                   *)
(* get_location((a, b)) is get_location((b, a)).                            *)
C22_DiagonalBlocks ==
    pc = "ready" =>
        /\ ~obj.crossover =>
              \A i \in 0..(obj.n_elements - 1) :
                 LET r == LocationOf(i, i) IN
                 /\ r.err = "none"
                 /\ 2 * (r.stop - r.start) = obj.nmax * (obj.nmax + 1) * (obj.lmax + 1)
                 /\ i = 0 => r.start = 0
                 /\ i > 0 => r.start = LocationOf(i - 1, i - 1).stop
                 /\ i = obj.n_elements - 1 => r.stop = GetNumberOfFeatures(obj)
        /\ \A a, b \in Universe \cup {Outsider} :
              GetLocation(obj, <<a, b>>) = GetLocation(obj, <<b, a>>)

(* without crossover, the block of the last of three species was asked for  *)
(* and ends the feature vector                                              *)
C22_Witness ==
    /\ pc = "ready" /\ ~obj.crossover /\ obj.n_elements = MaxSpecies /\ obj.nmax >= 2
    /\ last.op = "get_location" /\ last.err = "none"
    /\ last.arg = <<obj.index_to_atomic_number[obj.n_elements - 1],
                    obj.index_to_atomic_number[obj.n_elements - 1]>>
    /\ last.start > 0
    /\ last.stop = GetNumberOfFeatures(obj)

====
